---------------------------- MODULE Spec2Model ----------------------------
(***************************************************************************)
(* Order placement of the e-commerce backend: the order routes of          *)
(* src/routes/orders.js (two variants of POST /orders) and the             *)
(* payment-initiating order route of src/unnamed/part_000 with its         *)
(* gateway callback, over a relational store with READ COMMITTED           *)
(* transactions.                                                           *)
(*                                                                         *)
(* Money is an integer number of thousandths of a currency unit (mills),   *)
(* so that toFixed(2) and Math.round are real roundings.  Percentages are  *)
(* integers in hundredths of a percent (basis points).                     *)
(***************************************************************************)
EXTENDS Integers, Sequences, FiniteSets, TLC

(***************************************************************************)
(* Bounds of the model.                                                    *)
(***************************************************************************)
NumReqs == 2
MaxRequests == 2
MaxCallbacks == 2
\* product rows the product routes may insert
MaxProducts == 2
\* account requests, reset tokens given, hours on the clock
MaxAuth == 2
MaxResets == 2
MaxTime == 2

AuthReqs == 1..MaxAuth

Reqs == 1..NumReqs
ProductIds == {1, 2, 3}
MerchantIds == {"m1", "m2"}

NULL == -1

Falsy(x) == x = NULL \/ x = 0
Truthy(x) == ~Falsy(x)

(***************************************************************************)
(* Numbers.                                                                *)
(***************************************************************************)
Abs(x) == IF x < 0 THEN -x ELSE x

\* a / b rounded to the nearest integer, halves up (a >= 0, b > 0)
DivRound(a, b) == (a \div b) + (IF 2 * (a % b) >= b THEN 1 ELSE 0)

\* Number(x.toFixed(2)), x in mills
ToFixed2(x) == DivRound(x, 10) * 10

\* Math.round(x), x in mills
MathRound(x) == DivRound(x, 1000) * 1000

RECURSIVE PadStart(_, _)
PadStart(s, n) == IF Len(s) >= n THEN s ELSE PadStart("0" \o s, n)

\* `ORD${String(sequenceNumber).padStart(6, '0')}`
FormatOrderNumber(sequenceNumber) == "ORD" \o PadStart(ToString(sequenceNumber), 6)

(***************************************************************************)
(* The catalog.  A product row of the products table, with the columns     *)
(* the order routes read; deleted marks a row that DELETE FROM products    *)
(* has removed.                                                            *)
(***************************************************************************)
Product(active, stock, p1, q1min, q1max, p2, q2min, q2max, p3, q3min, vat, cb) ==
  [active |-> active, stock_units |-> stock,
   selling_price1 |-> p1, qty1_min |-> q1min, qty1_max |-> q1max,
   selling_price2 |-> p2, qty2_min |-> q2min, qty2_max |-> q2max,
   selling_price3 |-> p3, qty3_min |-> q3min,
   vat |-> vat, cashback_rate |-> cb, deleted |-> FALSE]

InitProducts ==
  (1 :> Product(TRUE, 5, 116000, 1, 2, 58000, 3, NULL, NULL, NULL, 1600, 500)) @@
  (2 :> Product(TRUE, 2, 100000, 1, NULL, NULL, NULL, NULL, NULL, NULL, 1600, 0)) @@
  (3 :> Product(FALSE, 4, 116000, 1, NULL, NULL, NULL, NULL, NULL, NULL, 1600, 500))

(***************************************************************************)
(* Pricing of one cart line (orders.js, second variant).                   *)
(***************************************************************************)
Tier(min, max, price) == [min_quantity |-> min, max_quantity |-> max, price |-> price]

TierPricing(product) ==
  << Tier(IF Truthy(product.qty1_min) THEN product.qty1_min ELSE 1,
          IF Truthy(product.qty1_max) THEN product.qty1_max ELSE NULL,
          IF Truthy(product.selling_price1) THEN product.selling_price1 ELSE 0) >>
  \o (IF Truthy(product.selling_price2) /\ Truthy(product.qty2_min)
      THEN << Tier(product.qty2_min,
                   IF Truthy(product.qty2_max) THEN product.qty2_max ELSE NULL,
                   product.selling_price2) >>
      ELSE << >>)
  \o (IF Truthy(product.selling_price3) /\ Truthy(product.qty3_min)
      THEN << Tier(product.qty3_min, NULL, product.selling_price3) >>
      ELSE << >>)

TierMatches(t, quantity) ==
  quantity >= t.min_quantity /\ (Falsy(t.max_quantity) \/ quantity <= t.max_quantity)

\* tier_pricing.find(...) || tier_pricing[0]
FindTier(tier_pricing, quantity) ==
  LET hits == {k \in 1..Len(tier_pricing) : TierMatches(tier_pricing[k], quantity)}
  IN IF hits = {} THEN tier_pricing[1]
     ELSE tier_pricing[CHOOSE k \in hits : \A j \in hits : k <= j]

\* the price the catalog gives for this quantity
TierPrice(product, quantity) == FindTier(TierPricing(product), quantity).price

\* const unitPrice = parseFloat(item.unitPrice) || tier.price
UnitPrice(item, product) ==
  IF Truthy(item.unitPrice) THEN item.unitPrice ELSE TierPrice(product, item.quantity)

\* const vatRate = parseFloat(item.vatRate) || product.vat || 0.16
VatRate(item, product) ==
  IF Truthy(item.vatRate) THEN item.vatRate
  ELSE IF Truthy(product.vat) THEN product.vat ELSE 16

\* Number((unitPrice / (1 + vatRate/100)).toFixed(2))
PriceExclVAT(unitPrice, vatRate) == DivRound(unitPrice * 10000, (10000 + vatRate) * 10) * 10

\* parseFloat(item.cashbackPercent) || parseFloat(product.cashback_rate) || 5
CashbackPercent(item, product) ==
  IF Truthy(item.cashbackPercent) THEN item.cashbackPercent
  ELSE IF Truthy(product.cashback_rate) THEN product.cashback_rate ELSE 500

\* Number((subtotalItemExclVAT * (cashbackPercent / 100)).toFixed(2))
CashbackAmount(subtotalItemExclVAT, cashbackPercent) ==
  DivRound(subtotalItemExclVAT * cashbackPercent, 100000) * 10

\* the element pushed on validatedItems for one cart line
ValidatedItem(item, product) ==
  LET unitPrice == UnitPrice(item, product)
      vatRate == VatRate(item, product)
      sub == PriceExclVAT(unitPrice, vatRate) * item.quantity
      cbp == CashbackPercent(item, product)
  IN [id |-> item.id, quantity |-> item.quantity, unitPrice |-> unitPrice,
      vatRate |-> vatRate, subtotalItemExclVAT |-> sub,
      cashbackPercent |-> cbp, cashbackAmount |-> CashbackAmount(sub, cbp)]


\* first variant: Math.round(unitPrice / (1 + vatRate)), vatRate = parseFloat(product.vat) || 0.16
V1VatRate(product) == IF Truthy(product.vat) THEN product.vat ELSE 16

V1PriceExclVAT(unitPrice, vatRate) == DivRound(unitPrice * 100, (100 + vatRate) * 1000) * 1000

V1Item(item, product) ==
  LET unitPrice == product.selling_price1
      vatRate == V1VatRate(product)
  IN [id |-> item.id, quantity |-> item.quantity, unitPrice |-> unitPrice,
      vatRate |-> vatRate,
      subtotalItemExclVAT |-> V1PriceExclVAT(unitPrice, vatRate) * item.quantity,
      cashbackPercent |-> NULL, cashbackAmount |-> NULL]

(***************************************************************************)
(* Requests.                                                               *)
(***************************************************************************)
Line(id, quantity, unitPrice, vatRate, cashbackPercent) ==
  [id |-> id, quantity |-> quantity, unitPrice |-> unitPrice, vatRate |-> vatRate,
   cashbackPercent |-> cashbackPercent]

Body(user, paymentMethod, cartItems, subtotalExclVAT, vatAmount, shippingCost, total, orderNumber, mpesaPhone) ==
  [user |-> user, paymentMethod |-> paymentMethod, cartItems |-> cartItems,
   subtotalExclVAT |-> subtotalExclVAT, vatAmount |-> vatAmount,
   shippingCost |-> shippingCost, total |-> total,
   orderNumber |-> orderNumber, mpesaPhone |-> mpesaPhone]

NoBody == Body(NULL, "none", << >>, 0, 0, 0, 0, "", FALSE)

\* validateOrder: the express-validator rules on the figures and the cart
ValidateOrder(body) ==
  /\ body.paymentMethod \in {"mpesa", "card"}
  /\ Len(body.cartItems) >= 1
  /\ \A k \in 1..Len(body.cartItems) :
       /\ body.cartItems[k].id >= 1
       /\ body.cartItems[k].quantity >= 1
       /\ body.cartItems[k].unitPrice = NULL \/ body.cartItems[k].unitPrice >= 0
       /\ body.cartItems[k].cashbackPercent = NULL
          \/ (body.cartItems[k].cashbackPercent >= 0 /\ body.cartItems[k].cashbackPercent <= 10000)
  /\ body.subtotalExclVAT >= 0
  /\ body.vatAmount >= 0
  /\ body.shippingCost >= 0
  /\ body.total >= 0

ExpectedShippingCost == 299000

VARIABLES
  products,          \* products table (committed rows): id -> row
  order_number_seq,  \* the sequence order_number_seq (last value given)
  order_id_seq,      \* the serial behind orders.id
  orders,            \* orders table (committed rows)
  order_items,       \* order_items table (committed rows)
  rowLock,           \* products row locks: id -> holding request, 0 when free
  req,               \* the requests in flight: slot -> handler state
  started,           \* number of order requests accepted so far
  gateway,           \* merchantRequestIDs the payment gateway has issued
  callbacks,         \* number of gateway callbacks handled so far
  catalog,           \* products rows stored through the product routes
  product_id_seq,    \* the serial behind products.id for those rows
  imp,               \* the bulk import request in flight: handler state
  admin,             \* the last response of a product route
  accounts,          \* users, sales_agents and admins (committed rows): email -> row
  auth,              \* the account requests in flight: slot -> handler state
  now,               \* the clock, in hours
  reset_seq          \* number of reset tokens given so far

\* the state of the order, payment and reader routes
shop == << products, order_number_seq, order_id_seq, orders, order_items, rowLock, req,
           started, gateway, callbacks >>

\* the state of the product routes
catalogState == << catalog, product_id_seq, imp, admin >>

\* the state of the account routes
authState == << accounts, auth, now, reset_seq >>

\* what the order, payment and reader routes leave alone
aux == << catalogState, authState >>

vars == << products, order_number_seq, order_id_seq, orders, order_items, rowLock, req,
           started, gateway, callbacks, aux >>

\* the payload of a token: jwt.sign({ id, email, userType }, ...)
Token(id, userType) == [id |-> id, userType |-> userType]

\* no token in the request; and req.user where no middleware has set it
NoToken == Token(NULL, "none")

\* Accounts (src/routes/auth.js)
\* bcrypt.hash(password, 10) and bcrypt.compare(password, hash)
Hash(password) == << "bcrypt", password >>

NoPassword == << >>

Compare(password, hash) == hash = Hash(password)

\* a row of users, sales_agents or admins
Account(table, id, password, is_confirmed, confirmation_token) ==
  [table |-> table, id |-> id, password |-> password, is_confirmed |-> is_confirmed,
   is_active |-> TRUE, confirmation_token |-> confirmation_token,
   reset_token |-> NULL, reset_token_expiry |-> NULL]

Emails == {"user@shop", "agent@shop", "admin@shop"}

\* a registered customer who has not set a password yet, a confirmed sales
\* agent and an administrator
InitAccounts ==
  ("user@shop" :> Account("users", 1, NoPassword, FALSE, 101)) @@
  ("agent@shop" :> Account("sales_agents", 2, Hash("Agent#1"), TRUE, NULL)) @@
  ("admin@shop" :> Account("admins", 9, Hash("Admin#1"), TRUE, NULL))

IdleAuth ==
  [pc |-> "idle", route |-> "none", email |-> "", token |-> NULL, password |-> "",
   table |-> "none", hash |-> NoPassword, id |-> NULL, at |-> 0, rowCount |-> 0,
   status |-> 0, jwt |-> NoToken]

IdleReq ==
  [pc |-> "idle", variant |-> "none", body |-> NoBody, i |-> 0,
   validatedItems |-> << >>, calculatedSubtotalExclVAT |-> 0,
   sequenceNumber |-> 0, orderNumber |-> "", orderId |-> 0,
   txOrders |-> {}, txItems |-> {}, txDelta |-> [p \in ProductIds |-> 0],
   merchantRequestID |-> "", status |-> 0, error |-> "none",
   token |-> NoToken, user |-> NoToken, orderIdParam |-> 0,
   order |-> {}, items |-> {}, txlog |-> << >>, userIdParam |-> 0]

Init ==
  /\ products = InitProducts
  /\ order_number_seq = 0
  /\ order_id_seq = 0
  /\ orders = {}
  /\ order_items = {}
  /\ rowLock = [p \in ProductIds |-> 0]
  /\ req = [r \in Reqs |-> IdleReq]
  /\ started = 0
  /\ gateway = {}
  /\ callbacks = 0
  /\ catalog = {}
  /\ product_id_seq = 0
  /\ imp = [pc |-> "idle", products |-> << >>, i |-> 0, errors |-> {}, insertedIds |-> << >>,
            txRows |-> {}, status |-> 0, ids |-> << >>]
  /\ admin = [route |-> "none", status |-> 0]
  /\ accounts = InitAccounts
  /\ auth = [a \in AuthReqs |-> IdleAuth]
  /\ now = 0
  /\ reset_seq = 0

(***************************************************************************)
(* The store.  A statement of a transaction reads the committed rows and   *)
(* the transaction's own writes (READ COMMITTED); an UPDATE of a row       *)
(* waits for the row's lock and then applies to the latest committed row.  *)
(***************************************************************************)
View(r, id) == [products[id] EXCEPT !.stock_units = @ - req[r].txDelta[id]]

ReleaseLocks(r) == [p \in ProductIds |-> IF rowLock[p] = r THEN 0 ELSE rowLock[p]]

NoTx(q) == [q EXCEPT !.txOrders = {}, !.txItems = {}, !.txDelta = [p \in ProductIds |-> 0]]

\* pcs at which the handler awaits a statement inside BEGIN .. COMMIT
TxPcs == {"begin", "check", "nextval", "insert_order", "select_item", "insert_item",
          "update_stock", "commit"}


(***************************************************************************)
(* POST /orders (src/routes/orders.js).  variant "v1" is the first         *)
(* variant of the handler in the file, "v2" the second.  One action per    *)
(* awaited statement, with the synchronous code that follows it.           *)
(***************************************************************************)
Respond(r, status, error) == [NoTx(req[r]) EXCEPT !.pc = "done", !.status = status, !.error = error]

\* the handler's record with the transaction statements it has just issued
\* (and client.release()) added to those it issued before
Logged(q, statements) == [q EXCEPT !.txlog = @ \o statements]

\* a throw inside the inner try: control goes to its catch block
Throw(r, error) == [req[r] EXCEPT !.pc = "catch", !.error = error]

\* verifyToken, validateOrder, pool.connect()
StartOrder(r, variant, body) ==
  /\ req[r].pc = "idle"
  /\ started < MaxRequests
  /\ started' = started + 1
  /\ req' = [req EXCEPT ![r] =
       IF body.user = NULL
       THEN [IdleReq EXCEPT !.pc = "done", !.variant = variant, !.body = body,
                            !.status = 401, !.error = "Unauthenticated"]
       ELSE IF ~ValidateOrder(body)
       THEN [IdleReq EXCEPT !.pc = "done", !.variant = variant, !.body = body,
                            !.status = 400, !.error = "Validation"]
       ELSE [IdleReq EXCEPT !.pc = "begin", !.variant = variant, !.body = body]]
  /\ UNCHANGED << aux, products, order_number_seq, order_id_seq, orders, order_items, rowLock,
                  gateway, callbacks >>

\* await client.query('BEGIN')
Begin(r) ==
  /\ req[r].pc = "begin"
  /\ req' = [req EXCEPT ![r].pc = "check", ![r].i = 1, ![r].txlog = Append(@, "BEGIN")]
  /\ UNCHANGED << aux, products, order_number_seq, order_id_seq, orders, order_items, rowLock,
                  started, gateway, callbacks >>

\* a validation loop without the comparison of stock_units with the quantity
CheckItemSkipsStock(r) ==
  /\ req[r].pc = "check"
  /\ LET q == req[r]
         item == q.body.cartItems[q.i]
         found == item.id \in ProductIds /\ ~View(r, item.id).deleted
                    /\ View(r, item.id).active
         last == q.i = Len(q.body.cartItems)
     IN req' = [req EXCEPT ![r] =
          IF ~found THEN Throw(r, "ProductNotFound")
          ELSE IF q.variant = "v1"
          THEN [q EXCEPT !.i = IF last THEN 0 ELSE q.i + 1,
                         !.pc = IF last THEN "nextval" ELSE "check"]
          ELSE LET v == ValidatedItem(item, View(r, item.id))
               IN [q EXCEPT !.validatedItems = Append(@, v),
                            !.calculatedSubtotalExclVAT = @ + v.subtotalItemExclVAT,
                            !.i = IF last THEN 0 ELSE q.i + 1,
                            !.pc = IF last THEN "validate" ELSE "check"]]
  /\ UNCHANGED << aux, products, order_number_seq, order_id_seq, orders, order_items, rowLock,
                  started, gateway, callbacks >>

\* one round of the validation loop: SELECT ... WHERE id = $1 AND active = true
CheckItem(r) ==
  /\ req[r].pc = "check"
  /\ LET q == req[r]
         item == q.body.cartItems[q.i]
         found == item.id \in ProductIds /\ ~View(r, item.id).deleted
                    /\ View(r, item.id).active
         last == q.i = Len(q.body.cartItems)
     IN req' = [req EXCEPT ![r] =
          IF ~found THEN Throw(r, "ProductNotFound")
          ELSE IF View(r, item.id).stock_units < item.quantity
          THEN Throw(r, "InsufficientStock")
          ELSE IF q.variant = "v1"
          THEN [q EXCEPT !.i = IF last THEN 0 ELSE q.i + 1,
                         !.pc = IF last THEN "nextval" ELSE "check"]
          ELSE LET v == ValidatedItem(item, View(r, item.id))
               IN [q EXCEPT !.validatedItems = Append(@, v),
                            !.calculatedSubtotalExclVAT = @ + v.subtotalItemExclVAT,
                            !.i = IF last THEN 0 ELSE q.i + 1,
                            !.pc = IF last THEN "validate" ELSE "check"]]
  /\ UNCHANGED << aux, products, order_number_seq, order_id_seq, orders, order_items, rowLock,
                  started, gateway, callbacks >>

\* a subtotal check that tolerates a difference of 0.01
SubtotalOkWithinOneCent(body, calculated) == Abs(body.subtotalExclVAT - calculated) <= 10

\* the three checks of the client's figures (second variant)
SubtotalOk(body, calculated) == ToFixed2(body.subtotalExclVAT) = ToFixed2(calculated)

ShippingOk(body) == ToFixed2(body.shippingCost) = ToFixed2(ExpectedShippingCost)

CalculatedTotal(body, calculated) ==
  MathRound(ToFixed2(calculated) + body.vatAmount + body.shippingCost)

\* a total check on whole currency units (Math.round on the client's total too)
TotalOkRoundedUnits(body, calculated) ==
  MathRound(body.total) = CalculatedTotal(body, calculated)

TotalOk(body, calculated) == ToFixed2(body.total) = ToFixed2(CalculatedTotal(body, calculated))

Validate(r) ==
  /\ req[r].pc = "validate"
  /\ LET q == req[r]
     IN req' = [req EXCEPT ![r] =
          IF ~SubtotalOk(q.body, q.calculatedSubtotalExclVAT) THEN Throw(r, "SubtotalMismatch")
          ELSE IF ~ShippingOk(q.body) THEN Throw(r, "ShippingMismatch")
          ELSE IF ~TotalOk(q.body, q.calculatedSubtotalExclVAT) THEN Throw(r, "TotalMismatch")
          ELSE [q EXCEPT !.pc = "nextval",
                         !.calculatedSubtotalExclVAT = ToFixed2(@)]]
  /\ UNCHANGED << aux, products, order_number_seq, order_id_seq, orders, order_items, rowLock,
                  started, gateway, callbacks >>

\* SELECT nextval('order_number_seq'): never undone by a rollback
NextVal(r) ==
  /\ req[r].pc = "nextval"
  /\ order_number_seq' = order_number_seq + 1
  /\ req' = [req EXCEPT ![r].pc = "insert_order",
                        ![r].sequenceNumber = order_number_seq',
                        ![r].orderNumber = FormatOrderNumber(order_number_seq')]
  /\ UNCHANGED << aux, products, order_id_seq, orders, order_items, rowLock, started, gateway,
                  callbacks >>

\* the status column is not set by INSERT INTO orders of orders.js
DefaultStatus == "pending"

OrderRow(id, route, body, orderNumber, status) ==
  [id |-> id, route |-> route, order_number |-> orderNumber, user_id |-> body.user,
   payment_method |-> body.paymentMethod,
   subtotal_excl_vat |-> body.subtotalExclVAT, vat_amount |-> body.vatAmount,
   shipping_cost |-> body.shippingCost, total_amount |-> body.total,
   status |-> status, merchant_request_id |-> "", updated_at |-> 0]

\* INSERT INTO orders ... RETURNING id, with the client's figures
InsertOrder(r) ==
  /\ req[r].pc = "insert_order"
  /\ order_id_seq' = order_id_seq + 1
  /\ LET q == req[r]
     IN req' = [req EXCEPT ![r] =
          [q EXCEPT !.orderId = order_id_seq',
                    !.txOrders = {OrderRow(order_id_seq', q.variant, q.body, q.orderNumber,
                                           DefaultStatus)},
                    !.i = 1,
                    !.pc = IF q.variant = "v1" THEN "select_item" ELSE "insert_item"]]
  /\ UNCHANGED << aux, products, order_number_seq, orders, order_items, rowLock, started,
                  gateway, callbacks >>

\* first variant: SELECT selling_price1, vat FROM products WHERE id = $1
\* (no row: rows[0] is undefined and product.selling_price1 throws)
SelectItem(r) ==
  /\ req[r].pc = "select_item"
  /\ LET q == req[r]
         item == q.body.cartItems[q.i]
     IN req' = [req EXCEPT ![r] =
          IF View(r, item.id).deleted
          THEN Throw(r, "TypeError")
          ELSE [q EXCEPT !.validatedItems = Append(@, V1Item(item, View(r, item.id))),
                         !.pc = "insert_item"]]
  /\ UNCHANGED << aux, products, order_number_seq, order_id_seq, orders, order_items, rowLock,
                  started, gateway, callbacks >>

ItemRow(orderId, line, v) ==
  [order_id |-> orderId, line |-> line, product_id |-> v.id, quantity |-> v.quantity,
   unit_price |-> v.unitPrice, vat_rate |-> v.vatRate,
   subtotal_excl_vat |-> v.subtotalItemExclVAT,
   cashback_amount |-> v.cashbackAmount, cashback_percent |-> v.cashbackPercent]

\* INSERT INTO order_items
InsertItem(r) ==
  /\ req[r].pc = "insert_item"
  /\ LET q == req[r]
     IN req' = [req EXCEPT ![r] =
          [q EXCEPT !.txItems = @ \cup {ItemRow(q.orderId, q.i, q.validatedItems[q.i])},
                    !.pc = "update_stock"]]
  /\ UNCHANGED << aux, products, order_number_seq, order_id_seq, orders, order_items, rowLock,
                  started, gateway, callbacks >>

\* an update that takes one unit per line (stock_units - 1), whatever the
\* quantity
UpdateStockByOne(r) ==
  /\ req[r].pc = "update_stock"
  /\ LET q == req[r]
         item == q.validatedItems[q.i]
         last == q.i = Len(q.body.cartItems)
     IN /\ rowLock[item.id] \in {0, r}
        /\ rowLock' = [rowLock EXCEPT ![item.id] = r]
        /\ req' = [req EXCEPT ![r] =
             [q EXCEPT !.txDelta[item.id] = @ + 1,
                       !.i = IF last THEN 0 ELSE q.i + 1,
                       !.pc = IF last THEN "commit"
                              ELSE IF q.variant = "v1" THEN "select_item" ELSE "insert_item"]]
  /\ UNCHANGED << aux, products, order_number_seq, order_id_seq, orders, order_items, started,
                  gateway, callbacks >>

\* UPDATE products SET stock_units = stock_units - $1 WHERE id = $2
UpdateStock(r) ==
  /\ req[r].pc = "update_stock"
  /\ LET q == req[r]
         item == q.validatedItems[q.i]
         last == q.i = Len(q.body.cartItems)
     IN /\ rowLock[item.id] \in {0, r}
        /\ rowLock' = [rowLock EXCEPT ![item.id] = r]
        /\ req' = [req EXCEPT ![r] =
             [q EXCEPT !.txDelta[item.id] = @ + item.quantity,
                       !.i = IF last THEN 0 ELSE q.i + 1,
                       !.pc = IF last THEN "commit"
                              ELSE IF q.variant = "v1" THEN "select_item" ELSE "insert_item"]]
  /\ UNCHANGED << aux, products, order_number_seq, order_id_seq, orders, order_items, started,
                  gateway, callbacks >>

\* COMMIT, then res.status(201); finally client.release()
Commit(r) ==
  /\ req[r].pc = "commit"
  /\ products' = [p \in ProductIds |->
                    [products[p] EXCEPT !.stock_units = @ - req[r].txDelta[p]]]
  /\ orders' = orders \cup req[r].txOrders
  /\ order_items' = order_items \cup req[r].txItems
  /\ rowLock' = ReleaseLocks(r)
  /\ req' = [req EXCEPT ![r] = Logged(Respond(r, 201, "none"), << "COMMIT", "release" >>)]
  /\ UNCHANGED << aux, order_number_seq, order_id_seq, started, gateway, callbacks >>

\* a statement of the transaction is refused by the store: it throws
StatementFails(r) ==
  /\ req[r].pc \in TxPcs
  /\ req' = [req EXCEPT ![r] =
       Logged(Throw(r, "Persistence"),
              IF req[r].pc = "begin" THEN << "BEGIN failed" >>
              ELSE IF req[r].pc = "commit" THEN << "COMMIT failed" >> ELSE << >>)]
  /\ UNCHANGED << aux, products, order_number_seq, order_id_seq, orders, order_items, rowLock,
                  started, gateway, callbacks >>

\* Rollback with the transaction's writes kept (a catch block that ends the
\* transaction with COMMIT)
RollbackKeepsWrites(r) ==
  /\ req[r].pc = "catch"
  /\ products' = [p \in ProductIds |->
                    [products[p] EXCEPT !.stock_units = @ - req[r].txDelta[p]]]
  /\ orders' = orders \cup req[r].txOrders
  /\ order_items' = order_items \cup req[r].txItems
  /\ rowLock' = ReleaseLocks(r)
  /\ req' = [req EXCEPT ![r] = Logged(Respond(r, 400, req[r].error), << "ROLLBACK", "release" >>)]
  /\ UNCHANGED << aux, order_number_seq, order_id_seq, started, gateway, callbacks >>

\* catch (err) { await client.query('ROLLBACK'); return res.status(400) ... }
Rollback(r) ==
  /\ req[r].pc = "catch"
  /\ rowLock' = ReleaseLocks(r)
  /\ req' = [req EXCEPT ![r] = Logged(Respond(r, 400, req[r].error), << "ROLLBACK", "release" >>)]
  /\ UNCHANGED << aux, products, order_number_seq, order_id_seq, orders, order_items, started,
                  gateway, callbacks >>

\* the ROLLBACK itself throws (the connection is gone: the store aborts the
\* transaction); the outer catch hands the error to the error middleware
RollbackFails(r) ==
  /\ req[r].pc = "catch"
  /\ rowLock' = ReleaseLocks(r)
  /\ req' = [req EXCEPT ![r] =
       Logged(Respond(r, 500, req[r].error), << "ROLLBACK failed", "release" >>)]
  /\ UNCHANGED << aux, products, order_number_seq, order_id_seq, orders, order_items, started,
                  gateway, callbacks >>

\* the request is abandoned before its commit (the connection ends with the
\* transaction open): the store aborts the transaction
Abandon(r) ==
  /\ req[r].pc \in TxPcs \cup {"validate", "catch"}
  /\ rowLock' = ReleaseLocks(r)
  /\ req' = [req EXCEPT ![r] = Respond(r, 0, "Abandoned")]
  /\ UNCHANGED << aux, products, order_number_seq, order_id_seq, orders, order_items, started,
                  gateway, callbacks >>

\* the response is out; the slot serves the next request
Finish(r) ==
  /\ req[r].pc = "done"
  /\ req' = [req EXCEPT ![r] = IdleReq]
  /\ UNCHANGED << aux, products, order_number_seq, order_id_seq, orders, order_items, rowLock,
                  started, gateway, callbacks >>


(***************************************************************************)
(* The payment-initiating order route and the gateway callback             *)
(* (src/unnamed/part_000).  Every statement is its own transaction         *)
(* (pool.query).                                                           *)
(***************************************************************************)
\* the checks of lines 54-62
ValidatePay(body) ==
  /\ Len(body.cartItems) >= 1
  /\ body.paymentMethod # ""
  /\ body.orderNumber # ""
  /\ Truthy(body.total) /\ Truthy(body.shippingCost) /\ Truthy(body.vatAmount)
  /\ body.paymentMethod = "mpesa" => body.mpesaPhone

\* authenticateToken and the request checks
StartPay(r, body) ==
  /\ req[r].pc = "idle"
  /\ started < MaxRequests
  /\ started' = started + 1
  /\ req' = [req EXCEPT ![r] =
       IF body.user = NULL
       THEN [IdleReq EXCEPT !.pc = "done", !.variant = "pay", !.body = body,
                            !.status = 401, !.error = "Unauthenticated"]
       ELSE IF ~ValidatePay(body)
       THEN [IdleReq EXCEPT !.pc = "done", !.variant = "pay", !.body = body,
                            !.status = 400, !.error = "Validation"]
       ELSE [IdleReq EXCEPT !.pc = "pay_insert", !.variant = "pay", !.body = body]]
  /\ UNCHANGED << aux, products, order_number_seq, order_id_seq, orders, order_items, rowLock,
                  gateway, callbacks >>

\* INSERT INTO orders (..., order_number, ..., status) VALUES (..., $2, ..., 'pending')
PayInsert(r) ==
  /\ req[r].pc = "pay_insert"
  /\ order_id_seq' = order_id_seq + 1
  /\ LET q == req[r]
     IN /\ orders' = orders \cup
             {[OrderRow(order_id_seq', "pay", q.body, q.body.orderNumber, "pending")
                 EXCEPT !.subtotal_excl_vat = NULL]}
        /\ req' = [req EXCEPT ![r] =
             IF q.body.paymentMethod = "mpesa"
             THEN [q EXCEPT !.orderId = order_id_seq', !.orderNumber = q.body.orderNumber,
                            !.pc = "pay_token"]
             ELSE [q EXCEPT !.orderId = order_id_seq', !.orderNumber = q.body.orderNumber,
                            !.pc = "done", !.status = 201]]
  /\ UNCHANGED << aux, products, order_number_seq, order_items, rowLock, started, gateway,
                  callbacks >>

\* const accessToken = await getAccessToken()
PayToken(r) ==
  /\ req[r].pc = "pay_token"
  /\ req' = [req EXCEPT ![r].pc = "pay_stk"]
  /\ UNCHANGED << aux, products, order_number_seq, order_id_seq, orders, order_items, rowLock,
                  started, gateway, callbacks >>

\* the gateway accepts the STK push and names it with a fresh merchantRequestID
PayStk(r) ==
  /\ req[r].pc = "pay_stk"
  /\ \E m \in MerchantIds \ gateway :
       /\ gateway' = gateway \cup {m}
       /\ req' = [req EXCEPT ![r].pc = "pay_update", ![r].merchantRequestID = m]
  /\ UNCHANGED << aux, products, order_number_seq, order_id_seq, orders, order_items, rowLock,
                  started, callbacks >>

SetOrder(id, merchantRequestID, status) ==
  {IF o.id = id THEN [o EXCEPT !.merchant_request_id = merchantRequestID, !.status = status]
   ELSE o : o \in orders}

\* UPDATE orders SET merchant_request_id = $1, ..., status = 'initiated' WHERE id = $4
PayUpdate(r) ==
  /\ req[r].pc = "pay_update"
  /\ orders' = SetOrder(req[r].orderId, req[r].merchantRequestID, "initiated")
  /\ req' = [req EXCEPT ![r].pc = "done", ![r].status = 201]
  /\ UNCHANGED << aux, products, order_number_seq, order_id_seq, order_items, rowLock, started,
                  gateway, callbacks >>

\* a catch block that undoes the insert before it answers (DELETE FROM
\* orders WHERE id = orderId)
PayFailsDeletesOrder(r) ==
  /\ req[r].pc \in {"pay_insert", "pay_token", "pay_stk", "pay_update"}
  /\ orders' = {o \in orders : o.id # req[r].orderId}
  /\ req' = [req EXCEPT ![r].pc = "done", ![r].status = 500, ![r].error = "Persistence"]
  /\ UNCHANGED << aux, products, order_number_seq, order_id_seq, order_items, rowLock,
                  started, gateway, callbacks >>

\* the insert, the token request, the STK push or the update throws:
\* catch (error) { return res.status(500) ... }
PayFails(r) ==
  /\ req[r].pc \in {"pay_insert", "pay_token", "pay_stk", "pay_update"}
  /\ req' = [req EXCEPT ![r].pc = "done", ![r].status = 500, ![r].error = "Persistence"]
  /\ UNCHANGED << aux, products, order_number_seq, order_id_seq, orders, order_items, rowLock,
                  started, gateway, callbacks >>

\* const status = resultCode === '0' ? 'completed' : 'failed'
CallbackStatus(resultCode) == IF resultCode = "0" THEN "completed" ELSE "failed"

\* a callback that also writes the order's amount (SET status = $1,
\* total_amount = 0, ...)
CallbackUpdateSetsAmount(merchantRequestID, status) ==
  {IF o.merchant_request_id = merchantRequestID
   THEN [o EXCEPT !.status = status, !.updated_at = callbacks + 1, !.total_amount = 0]
   ELSE o : o \in orders}

\* UPDATE orders SET status = $1, updated_at = CURRENT_TIMESTAMP
\* WHERE merchant_request_id = $2; the time of the n-th callback is n
CallbackUpdate(merchantRequestID, status) ==
  {IF o.merchant_request_id = merchantRequestID
   THEN [o EXCEPT !.status = status, !.updated_at = callbacks + 1]
   ELSE o : o \in orders}

\* POST /callback: no authentication, any merchantRequestID
Callback(merchantRequestID, resultCode) ==
  /\ callbacks < MaxCallbacks
  /\ callbacks' = callbacks + 1
  /\ orders' = IF merchantRequestID = "" THEN orders
               ELSE CallbackUpdate(merchantRequestID, CallbackStatus(resultCode))
  /\ UNCHANGED << aux, products, order_number_seq, order_id_seq, order_items, rowLock, req,
                  started, gateway >>

(***************************************************************************)
(* GET /orders/:orderId (src/routes/orders.js).  variant "get1" is the     *)
(* first variant of the handler in the file, "get2" the second.            *)
(***************************************************************************)
\* req.user.role: the payloads of the tokens carry id, email and userType
Role(user) == "undefined"

\* the columns of the orders row the handler selects
OrderColumns(o) ==
  [id |-> o.id, order_number |-> o.order_number, payment_method |-> o.payment_method,
   subtotal_excl_vat |-> o.subtotal_excl_vat, vat_amount |-> o.vat_amount,
   shipping_cost |-> o.shipping_cost, total_amount |-> o.total_amount, status |-> o.status]

\* the columns of an order_items row the second variant selects
ItemColumns(row) ==
  [line |-> row.line, product_id |-> row.product_id, quantity |-> row.quantity,
   unit_price |-> row.unit_price, vat_rate |-> row.vat_rate,
   subtotal_excl_vat |-> row.subtotal_excl_vat, cashback_amount |-> row.cashback_amount,
   cashback_percent |-> row.cashback_percent]

\* the columns the first variant selects: no cashback columns
ItemColumnsJoined(row) ==
  [line |-> row.line, product_id |-> row.product_id, quantity |-> row.quantity,
   unit_price |-> row.unit_price, vat_rate |-> row.vat_rate,
   subtotal_excl_vat |-> row.subtotal_excl_vat]

\* the first variant runs verifyToken; the second variant has no middleware
\* of its own and finds req.user as the application left it
StartGetOrder(r, variant, token, user, orderId) ==
  /\ req[r].pc = "idle"
  /\ started < MaxRequests
  /\ started' = started + 1
  /\ req' = [req EXCEPT ![r] =
       IF variant = "get1" /\ token = NoToken
       THEN [IdleReq EXCEPT !.pc = "done", !.variant = variant, !.token = token,
                            !.orderIdParam = orderId,
                            !.status = 401, !.error = "Unauthenticated"]
       ELSE [IdleReq EXCEPT !.pc = "get_order", !.variant = variant, !.token = token,
                            !.user = IF variant = "get1" THEN token ELSE user,
                            !.orderIdParam = orderId]]
  /\ UNCHANGED << aux, products, order_number_seq, order_id_seq, orders, order_items, rowLock,
                  gateway, callbacks >>

\* WHERE o.id = $1 AND o.user_id = $2                      (first variant)
\* WHERE o.id = $1 AND (o.user_id = $2 OR $3 = 'admin')    (second variant)
OrderResult(variant, user, orderId) ==
  {o \in orders :
     /\ o.id = orderId
     /\ \/ o.user_id = user.id
        \/ variant = "get2" /\ Role(user) = "admin"}

\* the order query; req.user.id throws in the second variant when req.user
\* is undefined, and the error goes to next(err)
SelectOrder(r) ==
  /\ req[r].pc = "get_order"
  /\ LET q == req[r]
         rows == OrderResult(q.variant, q.user, q.orderIdParam)
     IN req' = [req EXCEPT ![r] =
          IF q.variant = "get2" /\ q.user = NoToken
          THEN [q EXCEPT !.pc = "done", !.status = 500, !.error = "TypeError"]
          ELSE IF rows = {}
          THEN [q EXCEPT !.pc = "done", !.status = 404, !.error = "NotFound"]
          ELSE [q EXCEPT !.pc = "get_items", !.order = {OrderColumns(o) : o \in rows}]]
  /\ UNCHANGED << aux, products, order_number_seq, order_id_seq, orders, order_items, rowLock,
                  started, gateway, callbacks >>

\* FROM order_items oi JOIN products p ON oi.product_id = p.id   (first variant)
\* FROM order_items oi                                           (second variant)
ItemsResult(variant, orderId) ==
  IF variant = "get1"
  THEN {ItemColumnsJoined(row) :
          row \in {x \in order_items :
                     x.order_id = orderId /\ ~products[x.product_id].deleted}}
  ELSE {ItemColumns(row) : row \in {x \in order_items : x.order_id = orderId}}

\* the items query and res.json({ ...order, items })
SelectItems(r) ==
  /\ req[r].pc = "get_items"
  /\ req' = [req EXCEPT ![r].pc = "done", ![r].status = 200,
                        ![r].items = ItemsResult(req[r].variant, req[r].orderIdParam)]
  /\ UNCHANGED << aux, products, order_number_seq, order_id_seq, orders, order_items, rowLock,
                  started, gateway, callbacks >>

\* a query of the handler throws: next(err), answered 500 by the middleware
GetFails(r) ==
  /\ req[r].pc \in {"get_order", "get_items"}
  /\ req' = [req EXCEPT ![r].pc = "done", ![r].status = 500, ![r].error = "Persistence",
                        ![r].order = {}]
  /\ UNCHANGED << aux, products, order_number_seq, order_id_seq, orders, order_items, rowLock,
                  started, gateway, callbacks >>

(***************************************************************************)
(* GET /orders/user/:userId (src/routes/orders.js).  variant "list1" is    *)
(* the first variant of the handler in the file, "list2" the second.       *)
(***************************************************************************)
\* the first variant runs verifyToken and compares req.user.id with the
\* parameter; the second variant has neither
StartListOrders(r, variant, token, userId) ==
  /\ req[r].pc = "idle"
  /\ started < MaxRequests
  /\ started' = started + 1
  /\ req' = [req EXCEPT ![r] =
       IF variant = "list1" /\ token = NoToken
       THEN [IdleReq EXCEPT !.pc = "done", !.variant = variant, !.token = token,
                            !.userIdParam = userId,
                            !.status = 401, !.error = "Unauthenticated"]
       ELSE IF variant = "list1" /\ token.id # userId
       THEN [IdleReq EXCEPT !.pc = "done", !.variant = variant, !.token = token,
                            !.userIdParam = userId,
                            !.status = 403, !.error = "Unauthorized access"]
       ELSE [IdleReq EXCEPT !.pc = "list_orders", !.variant = variant, !.token = token,
                            !.userIdParam = userId]]
  /\ UNCHANGED << aux, products, order_number_seq, order_id_seq, orders, order_items, rowLock,
                  gateway, callbacks >>

\* SELECT ... FROM orders o WHERE o.user_id = $1
SelectUserOrders(r) ==
  /\ req[r].pc = "list_orders"
  /\ req' = [req EXCEPT ![r].pc = "list_items",
                        ![r].order = {OrderColumns(o) :
                                        o \in {x \in orders : x.user_id = req[r].userIdParam}}]
  /\ UNCHANGED << aux, products, order_number_seq, order_id_seq, orders, order_items, rowLock,
                  started, gateway, callbacks >>

\* the items query of every order found, and res.json(ordersWithItems)
SelectUserItems(r) ==
  /\ req[r].pc = "list_items"
  /\ LET found == {x \in order_items : \E o \in req[r].order : x.order_id = o.id}
     IN req' = [req EXCEPT ![r].pc = "done", ![r].status = 200,
                           ![r].items =
                             IF req[r].variant = "list1"
                             THEN {ItemColumnsJoined(row) :
                                     row \in {x \in found : ~products[x.product_id].deleted}}
                             ELSE {ItemColumns(row) : row \in found}]
  /\ UNCHANGED << aux, products, order_number_seq, order_id_seq, orders, order_items, rowLock,
                  started, gateway, callbacks >>

\* a query of the handler throws: next(err), answered 500 by the middleware
ListFails(r) ==
  /\ req[r].pc \in {"list_orders", "list_items"}
  /\ req' = [req EXCEPT ![r].pc = "done", ![r].status = 500, ![r].error = "Persistence",
                        ![r].order = {}]
  /\ UNCHANGED << aux, products, order_number_seq, order_id_seq, orders, order_items, rowLock,
                  started, gateway, callbacks >>

(***************************************************************************)
(* Catalog management (src/routes/products.js, src/unnamed/part_001).      *)
(* Each statement waits for the row's lock.                                *)
(***************************************************************************)
\* PUT /products/:id: UPDATE products SET selling_price1 = ..., vat = ...,
\* cashback_rate = ... WHERE id
UpdateProduct(id, selling_price1, vat, cashback_rate) ==
  /\ ~products[id].deleted
  /\ rowLock[id] = 0
  /\ products' = [products EXCEPT ![id].selling_price1 = selling_price1,
                                  ![id].vat = vat,
                                  ![id].cashback_rate = cashback_rate]
  /\ products' # products
  /\ UNCHANGED << aux, order_number_seq, order_id_seq, orders, order_items, rowLock, req,
                  started, gateway, callbacks >>

\* PATCH /products/:id/active and the soft DELETE /products/:id:
\* UPDATE products SET active = $1 WHERE id
SetActive(id, active) ==
  /\ ~products[id].deleted
  /\ rowLock[id] = 0
  /\ products[id].active # active
  /\ products' = [products EXCEPT ![id].active = active]
  /\ UNCHANGED << aux, order_number_seq, order_id_seq, orders, order_items, rowLock, req,
                  started, gateway, callbacks >>

\* DELETE /products/:id of part_001: DELETE FROM products WHERE id = $1.
\* The statement names no other table; a store that refuses it leaves every
\* table as it was.
DeleteProduct(id) ==
  /\ ~products[id].deleted
  /\ rowLock[id] = 0
  /\ products' = [products EXCEPT ![id].deleted = TRUE]
  /\ UNCHANGED << aux, order_number_seq, order_id_seq, orders, order_items, rowLock, req,
                  started, gateway, callbacks >>

(***************************************************************************)
(* Product create, update and bulk import (src/routes/products.js,         *)
(* src/unnamed/part_001).  catalog holds the rows these routes store, with *)
(* the columns the quantity ranges are made of.                            *)
(***************************************************************************)
\* the fields of a product form the routes read; an absent field is NULL.
\* valid: the other fields pass their validators and name rows that exist
ProductForm(productCode, qty1Min, qty1Max, qty2Min, qty2Max, qty3Min, valid) ==
  [productCode |-> productCode, qty1Min |-> qty1Min, qty1Max |-> qty1Max,
   qty2Min |-> qty2Min, qty2Max |-> qty2Max, qty3Min |-> qty3Min, valid |-> valid]

\* x || null
OrNull(x) == IF Truthy(x) THEN x ELSE NULL

\* the row INSERT INTO products ... stores for a form
ProductRow(id, formData) ==
  [id |-> id, product_code |-> formData.productCode,
   qty1_min |-> formData.qty1Min, qty1_max |-> formData.qty1Max,
   qty2_min |-> OrNull(formData.qty2Min), qty2_max |-> OrNull(formData.qty2Max),
   qty3_min |-> OrNull(formData.qty3Min)]

\* validateSingleProduct / validateProduct: qty1Min and qty1Max are integers
\* of at least 1, the optional quantities are integers of at least 1 when sent
ValidateSingleProduct(formData) ==
  /\ formData.valid
  /\ formData.qty1Min >= 1 /\ formData.qty1Max >= 1
  /\ \A q \in {formData.qty2Min, formData.qty2Max, formData.qty3Min} : q = NULL \/ q >= 1

\* SELECT id FROM products WHERE product_code = $1 [AND id != $2]
CodeCheck(rows, productCode, id) ==
  {p \in rows : p.product_code = productCode /\ p.id # id}

\* "Validate quantity ranges" of POST /products: TRUE when nothing is thrown
PostQuantityRanges(formData) ==
  /\ ~(Truthy(formData.qty2Max) /\ formData.qty2Max <= formData.qty1Max)
  /\ ~(Truthy(formData.qty3Min) /\ Truthy(formData.qty2Max)
         /\ formData.qty3Min <= formData.qty2Max)

\* "Validate quantity ranges" of PUT /products/:id: TRUE when nothing is
\* thrown.  A comparison with an absent field is false
PutQuantityRanges(formData) ==
  /\ ~(formData.qty1Max < formData.qty1Min)
  /\ ~(Truthy(formData.qty2Min) /\ formData.qty2Min <= formData.qty1Max)
  /\ ~(Truthy(formData.qty2Max) /\ formData.qty2Min # NULL
         /\ formData.qty2Max < formData.qty2Min)
  /\ ~(Truthy(formData.qty3Min) /\ Truthy(formData.qty2Max)
         /\ formData.qty3Min <= formData.qty2Max)

\* the last response of a product route
AdminResponse(route, status) == [route |-> route, status |-> status]

\* POST /products (products.js): BEGIN, the look-ups, the quantity ranges,
\* INSERT, COMMIT; a throw is answered 400 after ROLLBACK
CreateProduct(formData) ==
  /\ product_id_seq < MaxProducts
  /\ LET ok == /\ ValidateSingleProduct(formData)
               /\ CodeCheck(catalog, formData.productCode, 0) = {}
               /\ PostQuantityRanges(formData)
     IN IF ok
        THEN /\ product_id_seq' = product_id_seq + 1
             /\ catalog' = catalog \cup {ProductRow(product_id_seq + 1, formData)}
             /\ admin' = AdminResponse("create", 201)
        ELSE /\ admin' = AdminResponse("create", 400)
             /\ UNCHANGED << catalog, product_id_seq >>
  /\ UNCHANGED << shop, authState, imp >>

\* POST /products (part_001): the look-ups and the INSERT, each its own
\* statement on the pool
CreateProductLegacy(formData) ==
  /\ product_id_seq < MaxProducts
  /\ LET ok == /\ ValidateSingleProduct(formData)
               /\ CodeCheck(catalog, formData.productCode, 0) = {}
     IN IF ok
        THEN /\ product_id_seq' = product_id_seq + 1
             /\ catalog' = catalog \cup {ProductRow(product_id_seq + 1, formData)}
             /\ admin' = AdminResponse("create_legacy", 201)
        ELSE /\ admin' = AdminResponse("create_legacy", 400)
             /\ UNCHANGED << catalog, product_id_seq >>
  /\ UNCHANGED << shop, authState, imp >>

\* PUT /products/:id (products.js): the product must exist; UPDATE products
\* SET ... WHERE id
PutProduct(id, formData) ==
  /\ LET ok == /\ ValidateSingleProduct(formData)
               /\ \E p \in catalog : p.id = id
               /\ CodeCheck(catalog, formData.productCode, id) = {}
               /\ PutQuantityRanges(formData)
     IN IF ok
        THEN /\ catalog' = {p \in catalog : p.id # id} \cup {ProductRow(id, formData)}
             /\ admin' = AdminResponse("update", 200)
        ELSE /\ admin' = AdminResponse("update", 400)
             /\ UNCHANGED catalog
  /\ UNCHANGED << shop, authState, product_id_seq, imp >>

(***************************************************************************)
(* POST /products/bulk (products.js).  One action per awaited statement or *)
(* group of look-ups, with the synchronous code around it.                 *)
(***************************************************************************)
IdleImport ==
  [pc |-> "idle", products |-> << >>, i |-> 0, errors |-> {}, insertedIds |-> << >>,
   txRows |-> {}, status |-> 0, ids |-> << >>]

\* the response of the import: the transaction is over
ImportResponse(status, ids) ==
  [imp EXCEPT !.pc = "done", !.txRows = {}, !.status = status, !.ids = ids]

\* Array.isArray(req.body) ? req.body : []; an empty batch is answered 400
StartBulk(batch) ==
  /\ imp.pc = "idle"
  /\ imp' = IF Len(batch) = 0
            THEN [IdleImport EXCEPT !.pc = "done", !.status = 400]
            ELSE [IdleImport EXCEPT !.pc = "begin", !.products = batch]
  /\ UNCHANGED << shop, authState, catalog, product_id_seq, admin >>

\* await client.query('BEGIN')
BulkBegin ==
  /\ imp.pc = "begin"
  /\ imp' = [imp EXCEPT !.pc = "check", !.i = 1]
  /\ UNCHANGED << shop, authState, catalog, product_id_seq, admin >>

\* the manual validation of the bulk route on the quantity fields: a
\* quantity that is 0 or absent counts as not sent
BulkFieldsOk(product) ==
  /\ product.valid
  /\ Truthy(product.qty1Min) /\ product.qty1Min >= 1
  /\ Truthy(product.qty1Max) /\ product.qty1Max >= 1
  /\ \A q \in {product.qty2Min, product.qty2Max, product.qty3Min} : Falsy(q) \/ q >= 1

\* "Validate quantity ranges" of the bulk route: TRUE when no error is pushed
BulkQuantityRanges(product) ==
  /\ ~(product.qty1Max < product.qty1Min)
  /\ ~(Truthy(product.qty2Min) /\ product.qty2Min <= product.qty1Max)
  /\ ~(Truthy(product.qty2Max) /\ product.qty2Min # NULL
         /\ product.qty2Max < product.qty2Min)
  /\ ~(Truthy(product.qty3Min) /\ Truthy(product.qty2Max)
         /\ product.qty3Min <= product.qty2Max)

\* after products[i]: the next iteration, or the end of the loop
BulkNextPc(i) == IF i < Len(imp.products) THEN "check" ELSE "end"

\* one iteration up to the insert: the field checks and the look-ups, which
\* read the committed rows and the transaction's own; errors are collected
\* and the loop continues
BulkCheck ==
  /\ imp.pc = "check"
  /\ LET product == imp.products[imp.i]
         ok == /\ BulkFieldsOk(product)
               /\ BulkQuantityRanges(product)
               /\ CodeCheck(catalog \cup imp.txRows, product.productCode, 0) = {}
     IN imp' = IF ok THEN [imp EXCEPT !.pc = "insert"]
               ELSE [imp EXCEPT !.errors = @ \cup {imp.i}, !.i = @ + 1,
                                !.pc = BulkNextPc(imp.i)]
  /\ UNCHANGED << shop, authState, catalog, product_id_seq, admin >>

\* INSERT INTO products ... RETURNING id; insertedIds.push(id)
BulkInsert ==
  /\ imp.pc = "insert"
  /\ product_id_seq < MaxProducts
  /\ product_id_seq' = product_id_seq + 1
  /\ imp' = [imp EXCEPT !.txRows = @ \cup {ProductRow(product_id_seq + 1, imp.products[imp.i])},
                        !.insertedIds = Append(@, product_id_seq + 1),
                        !.i = @ + 1, !.pc = BulkNextPc(imp.i)]
  /\ UNCHANGED << shop, authState, catalog, admin >>

\* errors.length === 0: COMMIT, 201 with the ids
BulkCommit ==
  /\ imp.pc = "end"
  /\ imp.errors = {}
  /\ catalog' = catalog \cup imp.txRows
  /\ imp' = ImportResponse(201, imp.insertedIds)
  /\ admin' = AdminResponse("bulk", 201)
  /\ UNCHANGED << shop, authState, product_id_seq >>

\* Rollback with the rows the transaction inserted kept
BulkRollbackKeepsRows ==
  /\ imp.pc \in {"end", "catch"}
  /\ imp.pc = "end" => imp.errors # {}
  /\ catalog' = catalog \cup imp.txRows
  /\ imp' = ImportResponse(400, << >>)
  /\ admin' = AdminResponse("bulk", 400)
  /\ UNCHANGED << shop, authState, product_id_seq >>

\* errors.length > 0: ROLLBACK, 400; and the catch block: ROLLBACK, 400
BulkRollback ==
  /\ imp.pc \in {"end", "catch"}
  /\ imp.pc = "end" => imp.errors # {}
  /\ imp' = ImportResponse(400, << >>)
  /\ admin' = AdminResponse("bulk", 400)
  /\ UNCHANGED << shop, authState, catalog, product_id_seq >>

\* a statement of the import is refused by the store: it throws
BulkStatementFails ==
  /\ imp.pc \in {"begin", "check", "insert", "end"}
  /\ imp' = [imp EXCEPT !.pc = "catch"]
  /\ UNCHANGED << shop, authState, catalog, product_id_seq, admin >>

\* the ROLLBACK of the catch block throws (the connection is gone: the store
\* aborts the transaction); the error middleware answers 500
BulkRollbackFails ==
  /\ imp.pc = "catch"
  /\ imp' = ImportResponse(500, << >>)
  /\ admin' = AdminResponse("bulk", 500)
  /\ UNCHANGED << shop, authState, catalog, product_id_seq >>

\* the response is out
BulkFinish ==
  /\ imp.pc = "done"
  /\ imp' = IdleImport
  /\ UNCHANGED << shop, authState, catalog, product_id_seq, admin >>

(***************************************************************************)
(* Accounts and passwords (src/routes/auth.js).  Every statement is its    *)
(* own transaction (pool.query); one action per awaited statement, with    *)
(* the synchronous code that follows it.                                   *)
(***************************************************************************)
AuthResponse(a, status) == [auth[a] EXCEPT !.pc = "done", !.status = status]

\* the request passes the validators of its route
StartAuth(a, route, email, token, password) ==
  /\ auth[a].pc = "idle"
  /\ auth' = [auth EXCEPT ![a] =
       [IdleAuth EXCEPT !.pc = "select", !.route = route, !.email = email,
                        !.token = token, !.password = password]]
  /\ UNCHANGED << shop, catalogState, accounts, now, reset_seq >>

\* SELECT * FROM users / sales_agents WHERE confirmation_token = $1
SetPasswordSelect(a) ==
  /\ auth[a].pc = "select" /\ auth[a].route = "set-password"
  /\ LET rows == {e \in Emails : /\ accounts[e].table \in {"users", "sales_agents"}
                                 /\ accounts[e].confirmation_token = auth[a].token}
     IN auth' = [auth EXCEPT ![a] =
          IF rows = {} THEN AuthResponse(a, 400)
          ELSE [auth[a] EXCEPT !.pc = "update", !.at = now,
                               !.table = IF \E e \in rows : accounts[e].table = "users"
                                         THEN "users" ELSE "sales_agents"]]
  /\ UNCHANGED << shop, catalogState, accounts, now, reset_seq >>

\* UPDATE ... SET password = $1, is_confirmed = TRUE, confirmation_token = NULL
\* WHERE confirmation_token = $2; the answer is 200 whatever the row count
SetPasswordUpdate(a) ==
  /\ auth[a].pc = "update" /\ auth[a].route = "set-password"
  /\ LET rows == {e \in Emails : /\ accounts[e].table = auth[a].table
                                 /\ accounts[e].confirmation_token = auth[a].token}
     IN /\ accounts' = [e \in Emails |->
                          IF e \in rows
                          THEN [accounts[e] EXCEPT !.password = Hash(auth[a].password),
                                                   !.is_confirmed = TRUE,
                                                   !.confirmation_token = NULL]
                          ELSE accounts[e]]
        /\ auth' = [auth EXCEPT ![a] =
             [AuthResponse(a, 200) EXCEPT !.rowCount = Cardinality(rows)]]
  /\ UNCHANGED << shop, catalogState, now, reset_seq >>

\* POST /forgot-password: crypto.randomBytes gives a token never given
\* before; UPDATE ... SET reset_token = $1, reset_token_expiry = now + 1 hour
ForgotPassword(email) ==
  /\ accounts[email].table \in {"users", "sales_agents"}
  /\ reset_seq < MaxResets
  /\ reset_seq' = reset_seq + 1
  /\ accounts' = [accounts EXCEPT ![email].reset_token = reset_seq + 1,
                                  ![email].reset_token_expiry = now + 1]
  /\ UNCHANGED << shop, catalogState, auth, now >>

\* SELECT * FROM users / sales_agents
\* WHERE reset_token = $1 AND reset_token_expiry > NOW()
ResetSelect(a) ==
  /\ auth[a].pc = "select" /\ auth[a].route = "reset-password"
  /\ LET rows == {e \in Emails : /\ accounts[e].table \in {"users", "sales_agents"}
                                 /\ accounts[e].reset_token = auth[a].token
                                 /\ accounts[e].reset_token_expiry > now}
     IN auth' = [auth EXCEPT ![a] =
          IF rows = {} THEN AuthResponse(a, 400)
          ELSE [auth[a] EXCEPT !.pc = "update", !.at = now,
                               !.table = IF \E e \in rows : accounts[e].table = "users"
                                         THEN "users" ELSE "sales_agents"]]
  /\ UNCHANGED << shop, catalogState, accounts, now, reset_seq >>

\* UPDATE ... SET password = $1, reset_token = NULL, reset_token_expiry = NULL
\* WHERE reset_token = $2; the answer is 200 whatever the row count
ResetUpdate(a) ==
  /\ auth[a].pc = "update" /\ auth[a].route = "reset-password"
  /\ LET rows == {e \in Emails : /\ accounts[e].table = auth[a].table
                                 /\ accounts[e].reset_token = auth[a].token}
     IN /\ accounts' = [e \in Emails |->
                          IF e \in rows
                          THEN [accounts[e] EXCEPT !.password = Hash(auth[a].password),
                                                   !.reset_token = NULL,
                                                   !.reset_token_expiry = NULL]
                          ELSE accounts[e]]
        /\ auth' = [auth EXCEPT ![a] =
             [AuthResponse(a, 200) EXCEPT !.rowCount = Cardinality(rows)]]
  /\ UNCHANGED << shop, catalogState, now, reset_seq >>

\* an hour passes
Tick ==
  /\ now < MaxTime
  /\ now' = now + 1
  /\ UNCHANGED << shop, catalogState, accounts, auth, reset_seq >>

\* jwt.sign({ id, email, userType }, ...) and the 200 that carries it
Issue(a, id, userType) ==
  [AuthResponse(a, 200) EXCEPT !.jwt = Token(id, userType), !.id = id]

\* the table a login route reads
LoginTable(route) ==
  IF route = "login" THEN "users"
  ELSE IF route = "sales-agent-login" THEN "sales_agents" ELSE "admins"

\* POST /login and POST /sales-agent-login: the SELECT by email and the
\* checks before the comparison
LoginSelect(a) ==
  /\ auth[a].pc = "select" /\ auth[a].route \in {"login", "sales-agent-login"}
  /\ LET e == auth[a].email
         found == e \in Emails /\ accounts[e].table = LoginTable(auth[a].route)
     IN auth' = [auth EXCEPT ![a] =
          IF ~found THEN AuthResponse(a, 401)
          ELSE IF auth[a].route = "sales-agent-login"
                  /\ (~accounts[e].is_active \/ ~accounts[e].is_confirmed)
          THEN AuthResponse(a, 403)
          ELSE [auth[a] EXCEPT !.pc = "compare", !.id = accounts[e].id,
                               !.hash = accounts[e].password,
                               !.table = accounts[e].table]]
  /\ UNCHANGED << shop, catalogState, accounts, now, reset_seq >>

\* bcrypt.compare(password, row.password): it throws on a row without a
\* password (500), answers 401 on a mismatch, and the token is signed on a
\* match
LoginCompare(a) ==
  /\ auth[a].pc = "compare"
  /\ auth' = [auth EXCEPT ![a] =
       IF auth[a].hash = NoPassword THEN AuthResponse(a, 500)
       ELSE IF ~Compare(auth[a].password, auth[a].hash) THEN AuthResponse(a, 401)
       ELSE Issue(a, auth[a].id,
                  IF auth[a].route = "login" THEN "customer" ELSE "sales_agent")]
  /\ UNCHANGED << shop, catalogState, accounts, now, reset_seq >>

\* POST /admin-login: the SELECT by email; the token is signed for the row
\* found
AdminLogin(a) ==
  /\ auth[a].pc = "select" /\ auth[a].route = "admin-login"
  /\ LET e == auth[a].email
         found == e \in Emails /\ accounts[e].table = "admins"
     IN auth' = [auth EXCEPT ![a] =
          IF ~found THEN AuthResponse(a, 401)
          ELSE [Issue(a, accounts[e].id, "admin")
                  EXCEPT !.hash = accounts[e].password, !.table = "admins"]]
  /\ UNCHANGED << shop, catalogState, accounts, now, reset_seq >>

\* a statement of the handler throws: catch (err) { res.status(500) ... }
AuthFails(a) ==
  /\ auth[a].pc \in {"select", "update"}
  /\ auth' = [auth EXCEPT ![a] = AuthResponse(a, 500)]
  /\ UNCHANGED << shop, catalogState, accounts, now, reset_seq >>

(***************************************************************************)
(* Request bodies.  The client's figures are those its checkout page       *)
(* derives from the prices it holds, possibly shifted.                     *)
(***************************************************************************)
RECURSIVE ClientSubtotal(_)
ClientSubtotal(cart) ==
  IF cart = << >> THEN 0
  ELSE LET item == Head(cart)
           known == item.id \in ProductIds
           product == InitProducts[IF known THEN item.id ELSE 1]
       IN (IF known
           THEN PriceExclVAT(UnitPrice(item, product), VatRate(item, product)) * item.quantity
           ELSE 0)
          + ClientSubtotal(Tail(cart))

RECURSIVE ClientGross(_)
ClientGross(cart) ==
  IF cart = << >> THEN 0
  ELSE LET item == Head(cart)
           known == item.id \in ProductIds
           product == InitProducts[IF known THEN item.id ELSE 1]
       IN (IF known THEN UnitPrice(item, product) * item.quantity ELSE 0)
          + ClientGross(Tail(cart))

\* the body a checkout page sends for the cart, its subtotal, shipping cost
\* and total shifted by dSub, dShip and dTotal
CheckoutBody(user, cart, dSub, dShip, dTotal) ==
  LET sub == ClientSubtotal(cart)
      vat == ClientGross(cart) - sub
      ship == ExpectedShippingCost + dShip
  IN Body(user, "card", cart, sub + dSub, vat, ship,
          MathRound(sub + dSub + vat + ship) + dTotal, "", FALSE)


L(id, quantity) == Line(id, quantity, NULL, NULL, NULL)

CartQ3 == << L(1, 3) >>
CartTwo == << L(1, 1), L(2, 1) >>
CartBoth == << L(1, 3), L(2, 1) >>
CartDup == << L(1, 3), L(1, 3) >>
CartInactive == << L(3, 1) >>
CartNone == << L(1, 0) >>
CartTooMany == << L(2, 3) >>
\* a line with a unitPrice of 1.16 for product 1, whose tier price is 58.00
CartCheap == << Line(1, 3, 1160, NULL, NULL) >>
\* product 4 is not in the catalog
CartMissing == << L(4, 1) >>
\* the second line asks for more than product 2 has
CartSecondBad == << L(1, 1), L(2, 3) >>
\* lines with a cashbackPercent of 0 and of 10, and one without, for
\* product 2, whose cashback_rate is 0
CartCashZero == << Line(2, 1, NULL, NULL, 0) >>
CartCashTen == << Line(1, 1, NULL, NULL, 1000) >>
CartNoCash == << L(2, 1) >>

(***************************************************************************)
(* Specifications.                                                         *)
(***************************************************************************)
\* the steps of POST /orders that both variants share
OrderStep(r) ==
  \/ Begin(r)
  \/ CheckItem(r)
  \/ NextVal(r)
  \/ InsertOrder(r)
  \/ InsertItem(r)
  \/ UpdateStock(r)
  \/ Commit(r)
  \/ StatementFails(r)
  \/ Rollback(r)
  \/ RollbackFails(r)
  \/ Abandon(r)
  \/ Finish(r)

\* Concurrent requests to POST /orders (second variant)
StockBodies == {CheckoutBody(user, CartBoth, 0, 0, 0) : user \in {1}}

Next ==
  \E r \in Reqs :
    \/ \E body \in StockBodies : StartOrder(r, "v2", body)
    \/ OrderStep(r)
    \/ Validate(r)

Spec == Init /\ [][Next]_vars


\* Requests to POST /orders (second variant) executed one at a time
OneAtATime(r) == \A s \in Reqs \ {r} : req[s].pc = "idle"

SeqBodies ==
  {CheckoutBody(1, cart, 0, 0, 0) :
     cart \in {CartQ3, CartDup, CartTooMany, CartInactive, CartMissing, CartSecondBad,
               CartCashZero, CartCashTen, CartNoCash}}
  \cup {CheckoutBody(NULL, CartQ3, 0, 0, 0), CheckoutBody(1, CartNone, 0, 0, 0)}

NextSeq ==
  \E r \in Reqs :
    \/ \E body \in SeqBodies : OneAtATime(r) /\ StartOrder(r, "v2", body)
    \/ OrderStep(r)
    \/ Validate(r)

SpecSeq == Init /\ [][NextSeq]_vars

\* The payment-initiating route with the gateway's callbacks, beside
\* POST /orders (second variant) on the same orders table
PayBodies ==
  {Body(1, paymentMethod, CartTwo, 0, 29790, ExpectedShippingCost, 515000, orderNumber, phone) :
     paymentMethod \in {"mpesa", "card"}, orderNumber \in {"ORD000001", "A7"},
     phone \in BOOLEAN}

ResultCodes == {"0", "1032"}

NextPay ==
  \/ \E r \in Reqs :
       \/ \E body \in PayBodies : StartPay(r, body)
       \/ PayInsert(r)
       \/ PayToken(r)
       \/ PayStk(r)
       \/ PayUpdate(r)
       \/ PayFails(r)
       \/ StartOrder(r, "v2", CheckoutBody(2, CartTwo, 0, 0, 0))
       \/ OrderStep(r)
       \/ Validate(r)
  \/ \E merchantRequestID \in MerchantIds \cup {""}, resultCode \in ResultCodes :
       Callback(merchantRequestID, resultCode)

SpecPay == Init /\ [][NextPay]_vars

\* The payment-initiating route alone: concurrent requests and the
\* gateway's callbacks
PushBodies ==
  {Body(1, paymentMethod, CartTwo, 0, 29790, ExpectedShippingCost, 515000, "ORD000001", TRUE) :
     paymentMethod \in {"mpesa", "card"}}

NextPush ==
  \/ \E r \in Reqs :
       \/ \E body \in PushBodies : StartPay(r, body)
       \/ PayInsert(r)
       \/ PayToken(r)
       \/ PayStk(r)
       \/ PayUpdate(r)
       \/ PayFails(r)
       \/ Finish(r)
  \/ \E merchantRequestID \in MerchantIds \cup {""}, resultCode \in ResultCodes :
       Callback(merchantRequestID, resultCode)

SpecPush == Init /\ [][NextPush]_vars

\* POST /orders, both variants, one request at a time, over the figures a
\* client may submit
FigureShifts == {0, 4, 10, -10}

FigureBodies ==
  {CheckoutBody(1, cart, dSub, dShip, dTotal) :
     cart \in {CartQ3, CartCheap}, dSub \in FigureShifts, dShip \in {0, 1000},
     dTotal \in {0, 4, 10, 20}}

V1Bodies == {CheckoutBody(1, CartQ3, 0, dShip, dTotal) : dShip \in {0, 1000}, dTotal \in {0, 1000}}

NextFigures ==
  \E r \in Reqs :
    \/ \E body \in FigureBodies : OneAtATime(r) /\ StartOrder(r, "v2", body)
    \/ \E body \in V1Bodies : OneAtATime(r) /\ StartOrder(r, "v1", body)
    \/ OrderStep(r)
    \/ Validate(r)
    \/ SelectItem(r)

SpecFigures == Init /\ [][NextFigures]_vars

\* Orders placed one at a time and read back with GET /orders/:orderId,
\* with the catalog managed in between
Owner == Token(1, "customer")
Tokens == {Owner, Token(2, "customer"), Token(9, "admin"), NoToken}

ReadBodies == {CheckoutBody(Owner.id, CartQ3, 0, 0, 0)}

NextRead ==
  \/ \E r \in Reqs :
       \/ \E body \in ReadBodies, variant \in {"v1", "v2"} :
            OneAtATime(r) /\ StartOrder(r, variant, body)
       \/ OrderStep(r)
       \/ Validate(r)
       \/ SelectItem(r)
       \/ \E variant \in {"get1", "get2"}, token \in Tokens, user \in Tokens, orderId \in 1..2 :
            /\ OneAtATime(r)
            /\ user \in {token, NoToken}
            /\ StartGetOrder(r, variant, token, user, orderId)
       \/ SelectOrder(r)
       \/ SelectItems(r)
       \/ GetFails(r)
  \/ UpdateProduct(1, 120000, 800, 0)
  \/ SetActive(1, FALSE)
  \/ SetActive(1, TRUE)
  \/ DeleteProduct(1)

SpecRead == Init /\ [][NextRead]_vars

\* Orders of two users placed one at a time and listed with
\* GET /orders/user/:userId
ListBodies == {CheckoutBody(user, CartQ3, 0, 0, 0) : user \in {1, 2}}

NextList ==
  \E r \in Reqs :
    \/ \E body \in ListBodies : OneAtATime(r) /\ StartOrder(r, "v2", body)
    \/ OrderStep(r)
    \/ Validate(r)
    \/ \E variant \in {"list1", "list2"}, token \in Tokens, userId \in {1, 2} :
         StartListOrders(r, variant, token, userId)
    \/ SelectUserOrders(r)
    \/ SelectUserItems(r)
    \/ ListFails(r)

SpecList == Init /\ [][NextList]_vars

ReadPayBodies ==
  {Body(Owner.id, "mpesa", CartQ3, 0, 24000, ExpectedShippingCost, 473000, "ORD000001", TRUE)}

\* Orders placed one at a time by POST /orders and by the payment route,
\* with the catalog managed and the gateway calling back in between
NextFrame ==
  \/ \E r \in Reqs :
       \/ \E body \in ReadBodies : OneAtATime(r) /\ StartOrder(r, "v2", body)
       \/ OrderStep(r)
       \/ Validate(r)
       \/ \E body \in ReadPayBodies : OneAtATime(r) /\ StartPay(r, body)
       \/ PayInsert(r)
       \/ PayToken(r)
       \/ PayStk(r)
       \/ PayUpdate(r)
       \/ PayFails(r)
  \/ UpdateProduct(1, 120000, 800, 0)
  \/ SetActive(1, FALSE)
  \/ SetActive(1, TRUE)
  \/ DeleteProduct(1)
  \/ \E merchantRequestID \in MerchantIds, resultCode \in ResultCodes :
       Callback(merchantRequestID, resultCode)

SpecFrame == Init /\ [][NextFrame]_vars

(***************************************************************************)
(* The product routes: forms with ordered, inverted and overlapping        *)
(* quantity ranges, single and in batches.                                 *)
(***************************************************************************)
FormGood == ProductForm("A", 1, 2, 3, 4, 5, TRUE)
FormOneTier == ProductForm("B", 1, 3, NULL, NULL, NULL, TRUE)
FormInverted == ProductForm("B", 3, 1, NULL, NULL, NULL, TRUE)
FormOverlap == ProductForm("A", 1, 3, 2, 5, NULL, TRUE)
FormQty2MaxLow == ProductForm("A", 1, 3, 4, 2, NULL, TRUE)
FormQty3Low == ProductForm("B", 1, 2, 3, 5, 4, TRUE)
FormInvalid == ProductForm("A", 1, 2, 3, 4, 5, FALSE)
FormNoQty1 == ProductForm("B", NULL, 2, NULL, NULL, NULL, TRUE)

Forms == {FormGood, FormOneTier, FormInverted, FormOverlap, FormQty2MaxLow, FormQty3Low,
          FormInvalid, FormNoQty1}

Batches == {<< >>, << FormGood >>, << FormGood, FormOneTier >>, << FormGood, FormQty3Low >>,
            << FormInverted, FormGood >>, << FormGood, FormOverlap >>,
            << FormOneTier, FormInvalid >>}

NextCatalog ==
  \/ \E formData \in Forms : CreateProduct(formData)
  \/ \E formData \in Forms : CreateProductLegacy(formData)
  \/ \E id \in 1..MaxProducts, formData \in Forms : PutProduct(id, formData)
  \/ \E batch \in Batches : StartBulk(batch)
  \/ BulkBegin
  \/ BulkCheck
  \/ BulkInsert
  \/ BulkCommit
  \/ BulkRollback
  \/ BulkStatementFails
  \/ BulkRollbackFails
  \/ BulkFinish

SpecCatalog == Init /\ [][NextCatalog]_vars

\* The account routes: setting and resetting passwords with tokens, and
\* the three logins
Passwords == {"Pass#1", "Pass#2"}

AuthInputs ==
  {<< "set-password", "", 101, password >> : password \in Passwords}
  \cup {<< "reset-password", "", token, password >> :
           token \in 1..MaxResets, password \in Passwords}
  \cup {<< "login", email, NULL, password >> :
           email \in {"user@shop", "nobody@shop"}, password \in {"Pass#1", "Guess"}}
  \cup {<< "sales-agent-login", "agent@shop", NULL, password >> :
           password \in {"Agent#1", "Guess"}}
  \cup {<< "admin-login", email, NULL, "Guess" >> : email \in {"admin@shop", "nobody@shop"}}

NextAuth ==
  \/ \E a \in AuthReqs :
       \/ \E in \in AuthInputs : StartAuth(a, in[1], in[2], in[3], in[4])
       \/ SetPasswordSelect(a)
       \/ SetPasswordUpdate(a)
       \/ ResetSelect(a)
       \/ ResetUpdate(a)
       \/ LoginSelect(a)
       \/ LoginCompare(a)
       \/ AdminLogin(a)
       \/ AuthFails(a)
  \/ \E email \in {"user@shop", "agent@shop"} : ForgotPassword(email)
  \/ Tick

SpecAuth == Init /\ [][NextAuth]_vars


(***************************************************************************)
(* Properties.                                                             *)
(***************************************************************************)
RECURSIVE SumQuantity(_)
SumQuantity(rows) ==
  IF rows = {} THEN 0
  ELSE LET row == CHOOSE x \in rows : TRUE
       IN row.quantity + SumQuantity(rows \ {row})

\* units of product p taken by the stored order lines
SoldUnits(p) == SumQuantity({row \in order_items : row.product_id = p})

OrderRoutes == {"v1", "v2"}

Succeeded(r) == req[r].pc = "done" /\ req[r].status = 201

\* C1: concurrent POST /orders requests for the same product never together
\* take more units than were in stock, and stock_units is never negative
\* (stock 5, two orders of quantity 3: at most one succeeds).
C1_ConcurrentOrdersNeverOversell ==
  \A p \in ProductIds :
    /\ products[p].stock_units >= 0
    /\ SoldUnits(p) <= InitProducts[p].stock_units

\* C2: POST /orders is all-or-nothing.  Of a request that has not committed
\* (in flight, failed at any step, rolled back or abandoned) no orders row
\* and no order_items row is stored, and stock_units differs from its
\* initial value by exactly the units of the stored order lines; of a
\* request that committed, the header and every line of the cart are stored.
C2_AllOrNothing ==
  /\ \A r \in Reqs :
       req[r].variant \in OrderRoutes /\ req[r].orderId # 0 =>
         IF Succeeded(r)
         THEN /\ \E o \in orders : o.id = req[r].orderId
              /\ Cardinality({row \in order_items : row.order_id = req[r].orderId})
                   = Len(req[r].body.cartItems)
         ELSE /\ \A o \in orders : o.id # req[r].orderId
              /\ \A row \in order_items : row.order_id # req[r].orderId
  /\ \A row \in order_items : \E o \in orders : o.id = row.order_id
  /\ \A p \in ProductIds :
       products[p].stock_units = InitProducts[p].stock_units - SoldUnits(p)

\* C2 witness: a request failed after it had inserted its order header (and
\* was rolled back with status 400) while another order is stored.
C2_Witness ==
  \E r \in Reqs :
    /\ req[r].pc = "done" /\ req[r].status = 400 /\ req[r].error = "Persistence"
    /\ req[r].orderId # 0
    /\ orders # {}


\* C3: after any sequence of POST /orders requests executed one at a time
\* every product's stock_units is >= 0, also when one cart lists the same
\* product on two lines whose quantities are each within stock.
C3_StockNeverNegativeSequential == \A p \in ProductIds : products[p].stock_units >= 0

\* C4: every stored order carries an order_number the server generated from
\* order_number_seq, no two orders share an order_number, and the sequence
\* values held by requests are pairwise different.
C4_OrderNumbersServerGeneratedUnique ==
  /\ \A o \in orders : \E n \in 1..order_number_seq : o.order_number = FormatOrderNumber(n)
  /\ \A o1, o2 \in orders : o1.id # o2.id => o1.order_number # o2.order_number
  /\ \A r1, r2 \in Reqs :
       r1 # r2 /\ req[r1].sequenceNumber # 0 /\ req[r2].sequenceNumber # 0
         => req[r1].sequenceNumber # req[r2].sequenceNumber

TerminalStatuses == {"completed", "failed"}

\* C5: once an order's status is completed or failed, no step changes it.
C5_TerminalStatusNeverChanges ==
  [][\A o \in orders : o.status \in TerminalStatuses =>
       \A o2 \in orders' : o2.id = o.id => o2.status = o.status]_vars

StatusEdges ==
  {<< "pending", "initiated" >>, << "initiated", "completed" >>, << "initiated", "failed" >>}

\* C6: an order's status changes only from pending to initiated, from
\* initiated to completed and from initiated to failed.
C6_StatusChangesOnlyAlongEdges ==
  [][\A o \in orders : \A o2 \in orders' :
       o2.id = o.id /\ o2.status # o.status => << o.status, o2.status >> \in StatusEdges]_vars

\* the subtotal of a cart at the catalog's tier prices, whatever unitPrice
\* its lines carry
RECURSIVE CatalogSubtotal(_)
CatalogSubtotal(cart) ==
  IF cart = << >> THEN 0
  ELSE LET item == Head(cart)
           product == products[item.id]
       IN PriceExclVAT(TierPrice(product, item.quantity), VatRate(item, product))
            * item.quantity
          + CatalogSubtotal(Tail(cart))

\* the request has passed the three checks of its figures
Accepted(r) == req[r].variant = "v2" /\ req[r].sequenceNumber # 0

\* C7: the subtotal POST /orders compares the client's subtotalExclVAT with
\* is the one the catalog tier prices give, also for lines with a unitPrice;
\* a request is accepted only if its subtotalExclVAT agrees with that one.
C7_SubtotalFromCatalogPrice ==
  \A r \in Reqs :
    /\ req[r].variant = "v2" /\ req[r].pc = "validate" =>
         req[r].calculatedSubtotalExclVAT = CatalogSubtotal(req[r].body.cartItems)
    /\ Accepted(r) =>
         ToFixed2(req[r].body.subtotalExclVAT)
           = ToFixed2(CatalogSubtotal(req[r].body.cartItems))

MismatchErrors == {"SubtotalMismatch", "ShippingMismatch", "TotalMismatch"}

\* the handler has just run its checks of the figures
FiguresChecked(r) ==
  /\ req[r].variant = "v2"
  /\ \/ req[r].pc = "nextval"
     \/ req[r].pc = "catch" /\ req[r].error \in MismatchErrors

SubtotalGap(r) == Abs(req[r].body.subtotalExclVAT - req[r].calculatedSubtotalExclVAT)

InHundredths(x) == x % 10 = 0

TotalGap(r) ==
  Abs(req[r].body.total
      - MathRound(req[r].calculatedSubtotalExclVAT + req[r].body.vatAmount
                  + req[r].body.shippingCost))

ShippingGap(r) == Abs(req[r].body.shippingCost - ExpectedShippingCost)

C10_OrdersOnlyWithFlatRateShipping ==
  /\ \A o \in orders :
       o.route \in OrderRoutes => ToFixed2(o.shipping_cost) = ExpectedShippingCost
  /\ \A r \in Reqs :
       req[r].variant \in OrderRoutes /\ req[r].orderId # 0
         => ToFixed2(req[r].body.shippingCost) = ExpectedShippingCost

\* C11: every order row stored by an order-creation endpoint has
\* total_amount = round(subtotal_excl_vat + vat_amount + shipping_cost)
\* (the stored amounts taken to the hundredth), whatever figures the client
\* submitted.
C11_StoredTotalIsRoundedSum ==
  \A o \in orders :
    o.route \in OrderRoutes =>
      ToFixed2(o.total_amount)
        = MathRound(ToFixed2(o.subtotal_excl_vat) + ToFixed2(o.vat_amount)
                    + ToFixed2(o.shipping_cost))

\* the tiers a product row defines: tier 1 always, tiers 2 and 3 when the
\* row gives them a price and a minimum quantity
CatalogTiers(product) ==
  {[n |-> 1, min |-> product.qty1_min, max |-> product.qty1_max,
    price |-> product.selling_price1]}
  \cup (IF product.selling_price2 # NULL /\ product.qty2_min # NULL
        THEN {[n |-> 2, min |-> product.qty2_min, max |-> product.qty2_max,
               price |-> product.selling_price2]}
        ELSE {})
  \cup (IF product.selling_price3 # NULL /\ product.qty3_min # NULL
        THEN {[n |-> 3, min |-> product.qty3_min, max |-> NULL,
               price |-> product.selling_price3]}
        ELSE {})

InRange(t, q) == q >= t.min /\ (t.max = NULL \/ q <= t.max)

\* the prices the catalog allows for quantity q of the product
RangePrices(product, q) ==
  LET hits == {t \in CatalogTiers(product) : InRange(t, q)}
  IN IF hits = {} THEN {product.selling_price1} ELSE {t.price : t \in hits}

\* C12: the unit price POST /orders resolves for a line is the price of the
\* tier whose [min_quantity, max_quantity] range contains the quantity, and
\* tier 1's price when no range contains it.
C12_UnitPriceIsRangeTierPrice ==
  /\ \A row \in order_items :
       row.unit_price \in RangePrices(products[row.product_id], row.quantity)
  /\ \A r \in Reqs : \A k \in 1..Len(req[r].validatedItems) :
       LET v == req[r].validatedItems[k]
       IN v.unitPrice \in RangePrices(products[v.id], v.quantity)

\* round(unit_price / (1 + vat_rate/100), 2), vat_rate a percentage
RoundedExclVAT(unit_price, vat_rate) ==
  ToFixed2(DivRound(unit_price * 10000, 10000 + vat_rate))

RECURSIVE SumLines(_)
SumLines(items) ==
  IF items = << >> THEN 0
  ELSE RoundedExclVAT(Head(items).unitPrice, Head(items).vatRate) * Head(items).quantity
       + SumLines(Tail(items))

\* C13: the computed order subtotal is the sum over the lines of
\* round(unit_price / (1 + vat_rate/100), 2) * quantity, and so is each
\* stored line subtotal.
C13_SubtotalIsSumOfRoundedLines ==
  /\ \A r \in Reqs :
       req[r].variant = "v2" /\ req[r].pc = "validate" =>
         req[r].calculatedSubtotalExclVAT = SumLines(req[r].validatedItems)
  /\ \A row \in order_items :
       row.subtotal_excl_vat
         = RoundedExclVAT(row.unit_price, row.vat_rate) * row.quantity

\* the cashback percent of a line as stated: the supplied one, a supplied 0
\* included; else the product's rate, a rate of 0 included; else 5
StatedCashbackPercent(item, product) ==
  IF item.cashbackPercent # NULL THEN item.cashbackPercent
  ELSE IF product.cashback_rate # NULL THEN product.cashback_rate
  ELSE 500

\* C14: for each order line the cashback percent is the client-supplied
\* cashbackPercent when one is supplied (a supplied 0 included), otherwise
\* the product's cashback_rate when it has one (a rate of 0 included),
\* otherwise 5; and cashback_amount = round(line subtotal * percent / 100, 2).
C14_CashbackPercentAndAmount ==
  \A r \in Reqs :
    req[r].variant = "v2" =>
      \A k \in 1..Len(req[r].validatedItems) :
        LET v == req[r].validatedItems[k]
            item == req[r].body.cartItems[k]
        IN /\ v.cashbackPercent = StatedCashbackPercent(item, products[v.id])
           /\ v.cashbackAmount
                = DivRound(v.subtotalItemExclVAT * v.cashbackPercent, 100000) * 10

\* units of product p on the stored lines of order id
OrderUnits(id, p) ==
  SumQuantity({row \in order_items : row.order_id = id /\ row.product_id = p})

\* stock_units of product p as the request found it: requests run one at a
\* time, so only the request's own commit has changed it since
StockBefore(r, p) ==
  products[p].stock_units + (IF Succeeded(r) THEN OrderUnits(req[r].orderId, p) ELSE 0)

\* the line names a product that does not exist or is inactive, or asks
\* for more units than the product has
BadLine(r, item) ==
  \/ item.id \notin ProductIds
  \/ ~products[item.id].active
  \/ item.quantity > StockBefore(r, item.id)

HasBadLine(r) ==
  \E k \in 1..Len(req[r].body.cartItems) : BadLine(r, req[r].body.cartItems[k])

\* the handler of the second variant has taken the request in
Handled(r) == req[r].variant = "v2" /\ req[r].pc # "idle" /\ req[r].error # "Validation"
                /\ req[r].error # "Unauthenticated"

RECURSIVE OrderedQuantity(_, _)
OrderedQuantity(cart, p) ==
  IF cart = << >> THEN 0
  ELSE (IF Head(cart).id = p THEN Head(cart).quantity ELSE 0) + OrderedQuantity(Tail(cart), p)

\* the step is the commit of request r
Commits(r) == req[r].pc = "commit" /\ req'[r].pc = "done" /\ req'[r].status = 201

\* C16: the step that makes a POST /orders succeed takes from each
\* product's stock_units the total quantity the cart orders of it, leaves
\* the products not in the cart as they were, and no other step changes
\* stock_units.
C16_StockDecrementedByOrderedQuantity ==
  [][/\ \A r \in Reqs :
          Commits(r) =>
            \A p \in ProductIds :
              products'[p].stock_units
                = products[p].stock_units - OrderedQuantity(req[r].body.cartItems, p)
     /\ (\A r \in Reqs : ~Commits(r)) => products' = products]_vars

\* C16 witness: an order of 3 units of product 1 (stock 5) has succeeded:
\* stock_units is 2, product 2 still has its 2 units.
C16_Witness ==
  \E r \in Reqs :
    /\ Succeeded(r) /\ OrderedQuantity(req[r].body.cartItems, 1) = 3
    /\ OrderedQuantity(req[r].body.cartItems, 2) = 0
    /\ products[1].stock_units = InitProducts[1].stock_units - 3
    /\ products[2].stock_units = InitProducts[2].stock_units

BusinessErrors == {"ProductNotFound", "InsufficientStock"} \cup MismatchErrors

\* C17: POST /orders answers a failure of the persistence layer (a failed
\* INSERT, UPDATE or COMMIT) with status 500 and no error detail in the
\* body, and validation and business-rule failures with status 400.
C17_PersistenceFailureIs500 ==
  \A r \in Reqs :
    req[r].variant = "v2" /\ req[r].pc = "done" /\ req[r].status # 0 =>
      /\ req[r].error = "Persistence" => req[r].status = 500
      /\ req[r].status = 500 => req[r].error = "none"
      /\ req[r].error \in BusinessErrors \cup {"Validation"} => req[r].status = 400

GetRoutes == {"get1", "get2"}

\* the handler has answered the GET and the store answered its queries
Answered(r) ==
  req[r].variant \in GetRoutes /\ req[r].pc = "done" /\ req[r].error # "Persistence"

\* the caller holds a token and the order exists and is the caller's, or
\* the caller is an admin
MayRead(token, orderId) ==
  /\ token # NoToken
  /\ \E o \in orders :
       o.id = orderId /\ (o.user_id = token.id \/ token.userType = "admin")

\* C18: GET /orders/:orderId returns the order header and its lines when
\* the order exists and the authenticated caller is its owner or an admin,
\* and only then; every other caller gets no order data, and 404 when the
\* order is not found or not theirs.
C18_OrderReadByOwnerOrAdminOnly ==
  \A r \in Reqs :
    Answered(r) =>
      /\ req[r].status = 200 <=> MayRead(req[r].token, req[r].orderIdParam)
      /\ req[r].status = 200 => req[r].order # {}
      /\ req[r].status # 200 => req[r].order = {} /\ req[r].items = {}
      /\ req[r].token # NoToken /\ ~MayRead(req[r].token, req[r].orderIdParam)
           => req[r].status = 404

\* a line as the round trip compares it; a column the response does not
\* carry reads as NULL
LineOf(x) ==
  [product_id |-> x.product_id, quantity |-> x.quantity, unit_price |-> x.unit_price,
   vat_rate |-> x.vat_rate,
   cashback_amount |-> IF "cashback_amount" \in DOMAIN x THEN x.cashback_amount ELSE NULL]

OrderLines(id) == {row \in order_items : row.order_id = id}

\* the GET is by the owner of a stored order that the POST /orders of the
\* same variant of the file created
OwnerReads(r) ==
  /\ Answered(r)
  /\ \E o \in orders :
       /\ o.id = req[r].orderIdParam
       /\ req[r].token = Token(o.user_id, "customer")
       /\ << o.route, req[r].variant >> \in {<< "v1", "get1" >>, << "v2", "get2" >>}

\* C19: a GET /orders/:orderId by the owner of an order POST /orders
\* created returns exactly the lines that were written, with the same
\* product id, quantity, unit_price, vat_rate and cashback_amount, whatever
\* happened to the products in between.
C19_ReadReturnsWrittenLines ==
  \A r \in Reqs :
    OwnerReads(r) =>
      /\ req[r].status = 200
      /\ Cardinality(req[r].items) = Cardinality(OrderLines(req[r].orderIdParam))
      /\ {LineOf(x) : x \in req[r].items}
           = {LineOf(row) : row \in OrderLines(req[r].orderIdParam)}

\* the header without its status and its gateway correlation field
HeaderFrame(o) == [o EXCEPT !.status = "", !.merchant_request_id = ""]

\* C20 as stated: no step changes the lines of a stored order, nor any
\* field of its header other than status and the gateway correlation
\* fields.
C20_OnlyStatusAndCorrelationChange ==
  [][\A o \in orders :
       /\ \E o2 \in orders' : o2.id = o.id /\ HeaderFrame(o2) = HeaderFrame(o)
       /\ {row \in order_items' : row.order_id = o.id} = OrderLines(o.id)]_vars

\* C20 amended: no step changes the lines of a stored order, nor any field
\* of its header other than status, the gateway correlation fields and
\* updated_at; product changes and callbacks leave unit_price, vat_rate,
\* the subtotals, the totals and the owner as they were written.
C20_OnlyStatusCorrelationAndUpdatedAtChange ==
  [][\A o \in orders :
       /\ \E o2 \in orders' :
            /\ o2.id = o.id
            /\ [HeaderFrame(o2) EXCEPT !.updated_at = 0]
                 = [HeaderFrame(o) EXCEPT !.updated_at = 0]
       /\ {row \in order_items' : row.order_id = o.id} = OrderLines(o.id)]_vars

\* C20 witness: an order whose line was written at 16% VAT is stored while
\* the product is now at 8%, and a callback has completed a gateway order
\* whose total is the one submitted.
C20_Witness ==
  /\ \E row \in order_items :
       row.vat_rate = 1600 /\ products[row.product_id].vat = 800
  /\ \E o \in orders :
       /\ o.route = "pay" /\ o.status = "completed" /\ o.updated_at # 0
       /\ o.total_amount = 473000 /\ o.user_id = Owner.id

\* C21: an order created with a payment method other than M-Pesa is stored
\* in the terminal status created, never holds pending or initiated, and no
\* gateway callback changes it.
C21_NonMpesaOrderStoredCreated ==
  \A o \in orders :
    o.route = "pay" /\ o.payment_method # "mpesa" =>
      /\ o.status = "created"
      /\ o.merchant_request_id = "" /\ o.updated_at = 0

(***************************************************************************)
(* Quantity ranges of stored products.                                     *)
(***************************************************************************)
\* the quantity ranges of a row ascend without overlap
TiersAscend(p) ==
  /\ p.qty1_min <= p.qty1_max
  /\ p.qty2_min # NULL => p.qty1_max < p.qty2_min
  /\ p.qty3_min # NULL /\ p.qty2_max # NULL => p.qty2_max < p.qty3_min

\* C22: every product stored by product create, product update or bulk
\* import has quantity ranges in ascending order without overlap:
\* qty1_min <= qty1_max, qty1_max < qty2_min when tier 2 is present, and
\* qty2_max < qty3_min when tier 3 and qty2_max are present.
C22_StoredTiersAscend == \A p \in catalog : TiersAscend(p)

(***************************************************************************)
(* The transaction scope of POST /orders.                                  *)
(***************************************************************************)
\* the errors the pricing and validation code throws
ValidationErrors ==
  {"ProductNotFound", "InsufficientStock", "SubtotalMismatch", "ShippingMismatch",
   "TotalMismatch"}

\* C23: in POST /orders the product look-ups, the tier pricing and the
\* subtotal, shipping and total checks run before the transaction is opened:
\* while they run no BEGIN has been issued, and a request that failed one of
\* them has issued no BEGIN and no ROLLBACK.
C23_ValidationBeforeTransaction ==
  \A r \in Reqs :
    req[r].variant \in {"v1", "v2"} =>
      /\ req[r].pc \in {"check", "validate"} => req[r].txlog = << >>
      /\ req[r].error \in ValidationErrors => req[r].txlog = << >>

\* how many times the handler issued a statement
Issued(r, statement) ==
  Cardinality({k \in 1..Len(req[r].txlog) : req[r].txlog[k] = statement})

\* C24: a POST /orders request that opened a transaction and has answered
\* ended it by exactly one COMMIT or one ROLLBACK, never issued both, and
\* released its connection exactly once.
C24_OneCommitOrRollbackOneRelease ==
  \A r \in Reqs :
    /\ req[r].variant \in {"v1", "v2"}
    /\ req[r].pc = "done" /\ req[r].status # 0
    /\ Issued(r, "BEGIN") = 1
    => /\ Issued(r, "COMMIT") + Issued(r, "ROLLBACK") = 1
       /\ ~(Issued(r, "COMMIT") + Issued(r, "COMMIT failed") > 0
            /\ Issued(r, "ROLLBACK") + Issued(r, "ROLLBACK failed") > 0)
       /\ Issued(r, "release") = 1

(***************************************************************************)
(* The callback and the creating request.                                  *)
(***************************************************************************)
\* C25: once the gateway has accepted the STK push of an M-Pesa order, a
\* callback delivered for its merchantRequestID leaves the order completed
\* or failed, wherever the creating request stands with its own UPDATE that
\* records merchant_request_id and initiated; no delivered callback is
\* acknowledged while the order stays non-terminal.
C25_CallbackLeavesOrderTerminal ==
  [][\A m \in gateway, resultCode \in ResultCodes :
       Callback(m, resultCode) =>
         \E o \in orders' :
           o.merchant_request_id = m /\ o.status \in {"completed", "failed"}]_vars

(***************************************************************************)
(* A failing token request or STK push.                                    *)
(***************************************************************************)
\* the M-Pesa request r has answered after its insert without a
\* merchantRequestID: the token request or the STK push failed
PushFailed(r) ==
  /\ req[r].variant = "pay" /\ req[r].pc = "done"
  /\ req[r].body.paymentMethod = "mpesa"
  /\ req[r].orderId # 0 /\ req[r].merchantRequestID = ""

\* C26: when the token request or the STK push of the payment route fails
\* after the insert, the answer is 500 and the order row stays stored with
\* status pending and no merchant_request_id: the insert is not undone.
C26_FailedPushLeavesPendingOrder ==
  \A r \in Reqs :
    PushFailed(r) =>
      /\ req[r].status = 500
      /\ \E o \in orders :
           /\ o.id = req[r].orderId /\ o.route = "pay"
           /\ o.status = "pending" /\ o.merchant_request_id = ""

C26_Witness ==
  \E r \in Reqs :
    /\ PushFailed(r) /\ req[r].status = 500
    /\ \E o \in orders : o.id = req[r].orderId /\ o.status = "pending"
    /\ callbacks > 0

(***************************************************************************)
(* Who reads a user's orders.                                              *)
(***************************************************************************)
\* C27: GET /orders/user/:userId gives a user's orders only to a caller
\* authenticated as that user; a request of another user or without a token
\* receives no order data.
C27_OrdersListedOnlyToTheirUser ==
  \A r \in Reqs :
    /\ req[r].variant \in {"list1", "list2"} /\ req[r].pc = "done"
    /\ req[r].token.id # req[r].userIdParam
    => req[r].order = {} /\ req[r].items = {}

(***************************************************************************)
(* The bulk import.                                                        *)
(***************************************************************************)
\* C30: POST /products/bulk is all-or-nothing.  No step of the import
\* changes the stored products except the one that answers 201; that step
\* finds no error collected, stores every product of the batch and returns
\* their ids.  An import that collected an error or met a failing statement
\* is rolled back and stores nothing, the valid products it had already
\* inserted included.
C30_BulkAllOrNothing ==
  [][imp' # imp =>
       IF imp'.pc = "done" /\ imp'.status = 201
       THEN /\ imp.errors = {}
            /\ Len(imp'.ids) = Len(imp.products)
            /\ catalog' = catalog \cup {ProductRow(imp'.ids[k], imp.products[k]) :
                                          k \in 1..Len(imp.products)}
       ELSE catalog' = catalog]_vars

C30_Witness ==
  /\ imp.pc = "done" /\ imp.status = 400
  /\ Len(imp.products) = 2 /\ imp.errors = {2}
  /\ Len(imp.insertedIds) = 1
  /\ \A p \in catalog : p.id # imp.insertedIds[1]

(***************************************************************************)
(* Password tokens and logins.                                             *)
(***************************************************************************)
\* the request a has answered on a route that takes a password token
TokenRequestDone(a) ==
  auth[a].route \in {"set-password", "reset-password"} /\ auth[a].pc = "done"

\* C28: a confirmation token (set-password) or a reset token
\* (reset-password) changes a password at most once: of the requests that
\* carry one token at most one changes a row, and a request that changed
\* nothing, later or concurrent, is rejected (400, or 500 when its statement
\* failed).
C28_TokenChangesPasswordOnce ==
  \A a \in AuthReqs :
    TokenRequestDone(a) =>
      /\ auth[a].rowCount = 0 => auth[a].status \in {400, 500}
      /\ \A b \in AuthReqs \ {a} :
           /\ TokenRequestDone(b)
           /\ auth[b].route = auth[a].route /\ auth[b].token = auth[a].token
           => ~(auth[a].rowCount > 0 /\ auth[b].rowCount > 0)

\* C29: a login endpoint issues a JWT only when an account with the email
\* exists in its table and the password sent matches the account's hash.
C29_TokenOnlyForMatchingPassword ==
  \A a \in AuthReqs :
    auth[a].jwt # NoToken =>
      /\ auth[a].email \in Emails
      /\ accounts[auth[a].email].table = LoginTable(auth[a].route)
      /\ Compare(auth[a].password, auth[a].hash)

=========================================================================
